---- MODULE Spec2Model ----
(***************************************************************************)
(* NetIPv4 (src/Základ.py): parsing of an IPv4 address with an optional    *)
(* CIDR prefix, the derived mask / network / broadcast / range, and the    *)
(* report the main program prints.                                         *)
(*                                                                         *)
(* A Python string is a sequence of one-character strings, so that split() *)
(* and int() are modelled by what they do.  A Python list of ints is a     *)
(* sequence.  Printed lines carry the text and the values interpolated in  *)
(* it.  TLA+ strings are ASCII: the Czech labels lose their diacritics.    *)
(***************************************************************************)
EXTENDS Integers, Sequences, FiniteSets, TLC

VARIABLES pc, ip_input, net_ip, error, context, out, calls

vars == <<pc, ip_input, net_ip, error, context, out, calls>>

(***************************************************************************)
(* Python built-ins used by the program.                                   *)
(***************************************************************************)
Digits == {"0", "1", "2", "3", "4", "5", "6", "7", "8", "9"}

DigitVal(c) ==
    CASE c = "0" -> 0 [] c = "1" -> 1 [] c = "2" -> 2 [] c = "3" -> 3
      [] c = "4" -> 4 [] c = "5" -> 5 [] c = "6" -> 6 [] c = "7" -> 7
      [] c = "8" -> 8 [] c = "9" -> 9

\* c in s
Contains(s, c) == \E i \in 1..Len(s) : s[i] = c

\* s.split(c): always at least one field, empty fields kept
RECURSIVE PySplit(_, _)
PySplit(s, c) ==
    IF ~Contains(s, c) THEN <<s>>
    ELSE LET k == CHOOSE i \in 1..Len(s) :
                      s[i] = c /\ \A j \in 1..(i - 1) : s[j] # c
         IN <<SubSeq(s, 1, k - 1)>> \o PySplit(SubSeq(s, k + 1, Len(s)), c)

RECURSIVE DigitsValue(_)
DigitsValue(s) ==
    IF s = <<>> THEN 0
    ELSE 10 * DigitsValue(SubSeq(s, 1, Len(s) - 1)) + DigitVal(s[Len(s)])

\* int(s) over the alphabet of the inputs: an optional sign and at least one
\* digit; anything else raises ValueError (ok = FALSE)
PyInt(s) ==
    LET body == IF s # <<>> /\ s[1] = "-" THEN Tail(s) ELSE s
        neg  == s # <<>> /\ s[1] = "-"
    IN IF body # <<>> /\ \A i \in 1..Len(body) : body[i] \in Digits
       THEN [ok |-> TRUE, val |-> IF neg THEN -DigitsValue(body) ELSE DigitsValue(body)]
       ELSE [ok |-> FALSE, val |-> 0]

\* a & b on non-negative ints
RECURSIVE BitAnd(_, _)
BitAnd(a, b) ==
    IF a = 0 \/ b = 0 THEN 0
    ELSE 2 * BitAnd(a \div 2, b \div 2) + (IF a % 2 = 1 /\ b % 2 = 1 THEN 1 ELSE 0)

\* a | b on non-negative ints
RECURSIVE BitOr(_, _)
BitOr(a, b) ==
    IF a = 0 THEN b
    ELSE IF b = 0 THEN a
    ELSE 2 * BitOr(a \div 2, b \div 2) + (IF a % 2 = 1 \/ b % 2 = 1 THEN 1 ELSE 0)

\* ~m & 0xFF: ~m is -m - 1, and the low eight bits of a negative int are
\* those of its two's complement
InvertByte(m) == BitAnd((-m - 1) % 256, 255)

\* 1 << n
RECURSIVE Shl1(_)
Shl1(n) == IF n = 0 THEN 1 ELSE 2 * Shl1(n - 1)

\* str(b) of a bool
StrBool(b) == IF b THEN "True" ELSE "False"

\* '.'.join(map(str, l))
RECURSIVE Dotted(_)
Dotted(l) ==
    IF l = <<>> THEN ""
    ELSE IF Len(l) = 1 THEN ToString(l[1])
    ELSE ToString(l[1]) \o "." \o Dotted(Tail(l))

(***************************************************************************)
(* Python ints are unbounded; 2 ** 32 does not fit the model checker's     *)
(* integers.  The host count is computed on decimal digits, least          *)
(* significant first.                                                      *)
(***************************************************************************)
RECURSIVE BigDouble(_, _)
BigDouble(ds, carry) ==
    IF ds = <<>> THEN (IF carry = 0 THEN <<>> ELSE <<carry>>)
    ELSE LET v == 2 * ds[1] + carry
         IN <<v % 10>> \o BigDouble(Tail(ds), v \div 10)

\* 2 ** n
RECURSIVE BigPow2(_)
BigPow2(n) == IF n = 0 THEN <<1>> ELSE BigDouble(BigPow2(n - 1), 0)

RECURSIVE BigBorrow(_, _)
BigBorrow(ds, k) ==
    IF k = 0 \/ ds = <<>> THEN ds
    ELSE IF ds[1] >= k THEN <<ds[1] - k>> \o Tail(ds)
    ELSE <<ds[1] + 10 - k>> \o BigBorrow(Tail(ds), 1)

RECURSIVE BigTrim(_)
BigTrim(ds) ==
    IF Len(ds) > 1 /\ ds[Len(ds)] = 0 THEN BigTrim(SubSeq(ds, 1, Len(ds) - 1)) ELSE ds

\* big - k for a digit k
BigMinus(ds, k) ==
    IF Len(ds) = 1 /\ ds[1] < k
    THEN [neg |-> TRUE, mag |-> <<k - ds[1]>>]
    ELSE [neg |-> FALSE, mag |-> BigTrim(BigBorrow(ds, k))]

RECURSIVE BigDigitsStr(_)
BigDigitsStr(ds) ==
    IF ds = <<>> THEN "" ELSE BigDigitsStr(Tail(ds)) \o ToString(ds[1])

\* str(n)
BigStr(n) == (IF n.neg THEN "-" ELSE "") \o BigDigitsStr(n.mag)

(***************************************************************************)
(* class NetIPv4                                                           *)
(***************************************************************************)
\* a raise inside _parse_ip's try block: the message and the place
Raise(msg, site) ==
    [ok |-> FALSE, ip |-> <<>>, prefixlen |-> 0, msg |-> msg, site |-> site]

\* lines 49-56 with class A read as 1..127
ClassPrefix_wideA(first_octet) ==
    IF ~first_octet.ok
    THEN [ok |-> FALSE, val |-> 0, msg |-> "invalid literal for int()",
          site |-> "int(first_octet)"]
    ELSE IF first_octet.val >= 1 /\ first_octet.val <= 127
         THEN [ok |-> TRUE, val |-> 8, msg |-> "", site |-> ""]
    ELSE IF first_octet.val >= 128 /\ first_octet.val <= 191
         THEN [ok |-> TRUE, val |-> 16, msg |-> "", site |-> ""]
    ELSE IF first_octet.val >= 192 /\ first_octet.val <= 223
         THEN [ok |-> TRUE, val |-> 24, msg |-> "", site |-> ""]
    ELSE [ok |-> FALSE, val |-> 0,
          msg |-> "Nepodporovana IP adresa. Podporovane jsou tridy A, B, C.",
          site |-> "UnsupportedAddressClass"]

\* lines 48-56, first_octet being the outcome of int(...) on line 48
ClassPrefix(first_octet) ==
    IF ~first_octet.ok
    THEN [ok |-> FALSE, val |-> 0, msg |-> "invalid literal for int()",
          site |-> "int(first_octet)"]
    ELSE IF first_octet.val >= 1 /\ first_octet.val <= 126
         THEN [ok |-> TRUE, val |-> 8, msg |-> "", site |-> ""]
    ELSE IF first_octet.val >= 128 /\ first_octet.val <= 191
         THEN [ok |-> TRUE, val |-> 16, msg |-> "", site |-> ""]
    ELSE IF first_octet.val >= 192 /\ first_octet.val <= 223
         THEN [ok |-> TRUE, val |-> 24, msg |-> "", site |-> ""]
    ELSE [ok |-> FALSE, val |-> 0,
          msg |-> "Nepodporovana IP adresa. Podporovane jsou tridy A, B, C.",
          site |-> "UnsupportedAddressClass"]

_get_default_prefix_wideA(ip) == ClassPrefix_wideA(PyInt(PySplit(ip, ".")[1]))

_get_default_prefix(ip) == ClassPrefix(PyInt(PySplit(ip, ".")[1]))

\* line 21: prefixlen = int(prefix_part)
ExplicitPrefix(p, ip_part) ==
    IF p.ok
    THEN [ok |-> TRUE, val |-> p.val, ip_part |-> ip_part, msg |-> "", site |-> ""]
    ELSE [ok |-> FALSE, val |-> 0, ip_part |-> ip_part,
          msg |-> "invalid literal for int()", site |-> "int(prefix_part)"]

\* line 20: ip_part, prefix_part = ip.split('/')
Unpack(parts) ==
    IF Len(parts) # 2
    THEN [ok |-> FALSE, val |-> 0, ip_part |-> <<>>,
          msg |-> "too many values to unpack (expected 2)", site |-> "unpack"]
    ELSE ExplicitPrefix(PyInt(parts[2]), parts[1])

\* lines 23-25
DefaultPrefix(d, ip) ==
    [ok |-> d.ok, val |-> d.val, ip_part |-> ip, msg |-> d.msg, site |-> d.site]

\* lines 19-25: the address part and the prefix length, explicit or default
PrefixOf(ip) ==
    IF Contains(ip, "/")
    THEN Unpack(PySplit(ip, "/"))
    ELSE DefaultPrefix(_get_default_prefix(ip), ip)

\* lines 37-40
CheckRange(ip_bytes, prefixlen) ==
    IF \E i \in 1..4 : ip_bytes[i] < 0 \/ ip_bytes[i] > 255
    THEN Raise("Oktet IP adresy musi byt mezi 0 a 255.", "OctetOutOfRange")
    ELSE [ok |-> TRUE, ip |-> ip_bytes, prefixlen |-> prefixlen, msg |-> "", site |-> ""]

\* line 35: ip_bytes = [int(octet) for octet in ip_octets]
CheckInts(parsed, prefixlen) ==
    IF \E i \in 1..4 : ~parsed[i].ok
    THEN Raise("invalid literal for int()", "int(octet)")
    ELSE CheckRange([i \in 1..4 |-> parsed[i].val], prefixlen)

\* lines 32-33
CheckCount(ip_octets, prefixlen) ==
    IF Len(ip_octets) # 4
    THEN Raise("Neplatny format IP adresy.", "InvalidFormat")
    ELSE CheckInts([i \in 1..4 |-> PyInt(ip_octets[i])], prefixlen)

\* lines 30-40: the octets of the address part
OctetsOf(ip_part, prefixlen) == CheckCount(PySplit(ip_part, "."), prefixlen)

\* lines 27-28 moved after the octets' checks
PrefixRangeLast(r, prefixlen) ==
    IF r.ok /\ (prefixlen < 0 \/ prefixlen > 32)
    THEN Raise("Neplatna delka prefixu.", "InvalidPrefix")
    ELSE r

\* the octets checked before the prefix length
AfterPrefix_octetsFirst(pre) ==
    IF ~pre.ok THEN Raise(pre.msg, pre.site)
    ELSE PrefixRangeLast(OctetsOf(pre.ip_part, pre.val), pre.val)

\* lines 27-40, pre being the outcome of lines 19-25
AfterPrefix(pre) ==
    IF ~pre.ok THEN Raise(pre.msg, pre.site)
    ELSE IF pre.val < 0 \/ pre.val > 32
         THEN Raise("Neplatna delka prefixu.", "InvalidPrefix")
    ELSE OctetsOf(pre.ip_part, pre.val)

\* the try block of _parse_ip, lines 19-40
ParseTry(ip) == AfterPrefix(PrefixOf(ip))

\* lines 41-42: the except clause replaces every ValueError by one message;
\* the original stays the new exception's __context__ (site)
Except(r) == IF r.ok THEN r ELSE [r EXCEPT !.msg = "Neplatna IPv4 adresa."]

\* _parse_ip without the except clause
_parse_ip_noexcept(ip) == ParseTry(ip)

_parse_ip(ip) == Except(ParseTry(ip))

RECURSIVE MaskLoop(_, _, _)
MaskLoop(mask, i, prefixlen) ==
    IF i = 32 THEN mask
    ELSE MaskLoop(IF i < prefixlen
                  THEN [mask EXCEPT ![(i \div 8) + 1] = @ + Shl1(7 - (i % 8))]
                  ELSE mask,
                  i + 1, prefixlen)

\* the loop with i <= prefixlen for i < prefixlen
_calculate_netmask_offbyone(prefixlen) == MaskLoop(<<0, 0, 0, 0>>, 0, prefixlen + 1)

_calculate_netmask(prefixlen) == MaskLoop(<<0, 0, 0, 0>>, 0, prefixlen)

_calculate_network_address(ip, mask) == [i \in 1..4 |-> BitAnd(ip[i], mask[i])]

\* the mask used without being inverted
_calculate_broadcast_address_noinvert(self) ==
    [i \in 1..4 |-> BitOr(self.network[i], self.mask[i])]

_calculate_broadcast_address(self) ==
    LET inverted_mask == [i \in 1..4 |-> InvertByte(self.mask[i])]
    IN [i \in 1..4 |-> BitOr(self.network[i], inverted_mask[i])]

\* the second range read as 16..32
_is_private_wide(self) ==
    \/ self.ip[1] = 10
    \/ (self.ip[1] = 172 /\ 16 <= self.ip[2] /\ self.ip[2] <= 32)
    \/ (self.ip[1] = 192 /\ self.ip[2] = 168)

_is_private(self) ==
    \/ self.ip[1] = 10
    \/ (self.ip[1] = 172 /\ 16 <= self.ip[2] /\ self.ip[2] <= 31)
    \/ (self.ip[1] = 192 /\ self.ip[2] = 168)

NoObject == <<>>

\* lines 8-9, with the attributes of line 7
Derive(ip, prefixlen, mask) ==
    [ip |-> ip, prefixlen |-> prefixlen, mask |-> mask,
     network |-> _calculate_network_address(ip, mask)]

\* lines 7-11, r being the outcome of _parse_ip: no attribute is assigned
\* before _parse_ip returns, and its ValueError is raised again as
\* ValueError(str(e))
Assign(r) ==
    IF ~r.ok
    THEN [ok |-> FALSE, self |-> NoObject, msg |-> r.msg, context |-> r.site]
    ELSE [ok |-> TRUE, self |-> Derive(r.ip, r.prefixlen, _calculate_netmask(r.prefixlen)),
          msg |-> "", context |-> ""]

\* NetIPv4(ip): __init__
NetIPv4(ip) == Assign(_parse_ip(ip))

\* a print(...) statement: its source line, the values it interpolates and
\* the text it writes
Line(stmt, vals, text) == [stmt |-> stmt, vals |-> vals, text |-> text]

\* get_ip_info with the public flag printed before the private flag
get_ip_info_swapped(self) ==
    << Line(95, <<self.ip, self.prefixlen>>,
            "\n--- Informace o IP adrese " \o Dotted(self.ip) \o "/"
                \o ToString(self.prefixlen) \o " ---"),
       Line(96, <<self.ip>>, "Adresa: " \o Dotted(self.ip)),
       Line(97, <<>>, "Typ IP: IPv4"),
       Line(98, <<self.mask>>, "Maska site: " \o Dotted(self.mask)),
       Line(99, <<self.prefixlen>>, "Prefix delka: " \o ToString(self.prefixlen)),
       Line(101, <<~_is_private(self)>>, "Je verejna: " \o StrBool(~_is_private(self))),
       Line(100, <<_is_private(self)>>, "Je privatni: " \o StrBool(_is_private(self))) >>

get_ip_info(self) ==
    << Line(95, <<self.ip, self.prefixlen>>,
            "\n--- Informace o IP adrese " \o Dotted(self.ip) \o "/"
                \o ToString(self.prefixlen) \o " ---"),
       Line(96, <<self.ip>>, "Adresa: " \o Dotted(self.ip)),
       Line(97, <<>>, "Typ IP: IPv4"),
       Line(98, <<self.mask>>, "Maska site: " \o Dotted(self.mask)),
       Line(99, <<self.prefixlen>>, "Prefix delka: " \o ToString(self.prefixlen)),
       Line(100, <<_is_private(self)>>, "Je privatni: " \o StrBool(_is_private(self))),
       Line(101, <<~_is_private(self)>>, "Je verejna: " \o StrBool(~_is_private(self))) >>

\* the host count clamped at 0
get_broadcast_info_clamped(self) ==
    LET broadcast == _calculate_broadcast_address(self)
        m == BigMinus(BigPow2(32 - self.prefixlen), 2)
        max_hosts == IF m.neg THEN [neg |-> FALSE, mag |-> <<0>>] ELSE m
    IN << Line(109, <<broadcast>>, "Broadcast adresa: " \o Dotted(broadcast)),
          Line(110, <<max_hosts>>, "Maximalni pocet hostu: " \o BigStr(max_hosts)) >>

get_broadcast_info(self) ==
    LET broadcast == _calculate_broadcast_address(self)
        max_hosts == BigMinus(BigPow2(32 - self.prefixlen), 2)
    IN << Line(109, <<broadcast>>, "Broadcast adresa: " \o Dotted(broadcast)),
          Line(110, <<max_hosts>>, "Maximalni pocet hostu: " \o BigStr(max_hosts)) >>

\* l[:], a new list with the same elements
Copy(l) == [i \in 1..Len(l) |-> l[i]]

\* first_address = self.network, without the copy: the += 1 lands in the object
get_address_range_alias(self) ==
    LET first_address == [self.network EXCEPT ![Len(self.network)] = @ + 1]
        aliased == [self EXCEPT !.network = first_address]
        broadcast == _calculate_broadcast_address(aliased)
        last_address == [Copy(broadcast) EXCEPT ![Len(broadcast)] = @ - 1]
    IN [self |-> aliased,
        lines |-> << Line(121, <<first_address, last_address>>,
                          "Rozsah adresy: " \o Dotted(first_address) \o " - "
                              \o Dotted(last_address)) >>]

\* the lists changed are copies: no attribute of self is written
get_address_range(self) ==
    LET first_address == [Copy(self.network) EXCEPT ![Len(self.network)] = @ + 1]
        broadcast == _calculate_broadcast_address(self)
        last_address == [Copy(broadcast) EXCEPT ![Len(broadcast)] = @ - 1]
    IN [self |-> self,
        lines |-> << Line(121, <<first_address, last_address>>,
                          "Rozsah adresy: " \o Dotted(first_address) \o " - "
                              \o Dotted(last_address)) >>]

get_network_address(self) ==
    << Line(127, <<self.network>>, "Sitova adresa: " \o Dotted(self.network)) >>

(***************************************************************************)
(* The strings typed at the prompt.                                        *)
(***************************************************************************)
RECURSIVE NatChars(_)
NatChars(n) ==
    LET d == <<"0", "1", "2", "3", "4", "5", "6", "7", "8", "9">>
    IN IF n < 10 THEN <<d[n + 1]>> ELSE NatChars(n \div 10) \o <<d[(n % 10) + 1]>>

IntChars(n) == IF n < 0 THEN <<"-">> \o NatChars(-n) ELSE NatChars(n)

RECURSIVE Join(_, _)
Join(fields, sep) ==
    IF fields = <<>> THEN <<>>
    ELSE IF Len(fields) = 1 THEN fields[1]
    ELSE fields[1] \o <<sep>> \o Join(Tail(fields), sep)

AddressChars(a) == Join([i \in 1..Len(a) |-> IntChars(a[i])], ".")

FirstOctets  == {0, 1, 10, 126, 127, 128, 172, 191, 192, 223, 224, 255}
SecondOctets == {0, 15, 16, 31, 32, 168, 255}
ThirdOctets  == {1, 254}
FourthOctets == {0, 1, 127, 254, 255}

Addresses ==
    { <<a, b, c, d>> : a \in FirstOctets, b \in SecondOctets,
                       c \in ThirdOctets, d \in FourthOctets }

Prefixes == 0..32

\* A.B.C.D and A.B.C.D/P
WellFormed ==
    { AddressChars(a) : a \in Addresses }
    \cup { AddressChars(a) \o <<"/">> \o IntChars(p) : a \in Addresses, p \in Prefixes }

BaseAddresses ==
    { <<10, 0, 0, 1>>, <<172, 16, 254, 255>>, <<192, 168, 1, 1>>,
      <<0, 0, 0, 1>>, <<127, 0, 0, 1>>, <<240, 0, 0, 1>> }

BadFields == { <<"x">>, <<>>, <<"2", "5", "6">>, <<"-", "1">> }

\* an address with too few or too many fields, or with one field that is no
\* octet
AddressVariants(a) ==
    LET f == [i \in 1..4 |-> IntChars(a[i])]
    IN { f, SubSeq(f, 1, 3), f \o << <<"1">> >> }
       \cup { [f EXCEPT ![k] = b] : k \in 1..4, b \in BadFields }

Suffixes ==
    { <<>>, <<"/", "2", "4">>, <<"/", "3", "3">>, <<"/", "-", "1">>, <<"/", "x">>,
      <<"/">>, <<"/", "2", "4", "/", "1">>, <<"/", "2", ".", "4">> }

Malformed ==
    { Join(v, ".") \o s : v \in UNION { AddressVariants(a) : a \in BaseAddresses },
                          s \in Suffixes }

Inputs == WellFormed \cup Malformed

ApiAddresses ==
    { <<a, b, c, d>> : a \in {10, 172, 192, 200}, b \in {16, 168},
                       c \in {1, 254}, d \in {0, 1, 255} }

ApiInputs ==
    { AddressChars(a) : a \in ApiAddresses }
    \cup { AddressChars(a) \o <<"/">> \o IntChars(p) :
               a \in ApiAddresses, p \in {0, 8, 23, 30, 31, 32, 33} }

\* calls made on one object
MaxCalls == 3

(***************************************************************************)
(* The main program, lines 130-141.                                        *)
(***************************************************************************)
Init ==
    /\ pc = "input"
    /\ ip_input = <<>>
    /\ net_ip = NoObject
    /\ error = ""
    /\ context = ""
    /\ out = <<>>
    /\ calls = <<>>

\* net_ip = NetIPv4(ip), r being what the constructor gives; a ValueError
\* leaves net_ip unbound
Bind(r, ip, onSuccess, onError) ==
    /\ ip_input' = ip
    /\ net_ip' = r.self
    /\ error' = r.msg
    /\ context' = r.context
    /\ pc' = IF r.ok THEN onSuccess ELSE onError
    /\ UNCHANGED <<out, calls>>

Construct(ip, onSuccess, onError) == Bind(NetIPv4(ip), ip, onSuccess, onError)

\* r being what get_address_range gives
AddressRangeEffect(r) ==
    /\ net_ip' = r.self
    /\ out' = out \o r.lines
    /\ calls' = Append(calls, "get_address_range")
    /\ UNCHANGED <<ip_input, error, context>>

Call_get_ip_info ==
    /\ out' = out \o get_ip_info(net_ip)
    /\ calls' = Append(calls, "get_ip_info")
    /\ UNCHANGED <<net_ip, ip_input, error, context>>

Call_get_broadcast_info ==
    /\ out' = out \o get_broadcast_info(net_ip)
    /\ calls' = Append(calls, "get_broadcast_info")
    /\ UNCHANGED <<net_ip, ip_input, error, context>>

Call_get_address_range == AddressRangeEffect(get_address_range(net_ip))

Call_get_network_address ==
    /\ out' = out \o get_network_address(net_ip)
    /\ calls' = Append(calls, "get_network_address")
    /\ UNCHANGED <<net_ip, ip_input, error, context>>

\* line 131
ReadInput ==
    /\ pc = "input"
    /\ \E s \in Inputs : ip_input' = s
    /\ pc' = "construct"
    /\ UNCHANGED <<net_ip, error, context, out, calls>>

\* line 134
MainConstruct ==
    /\ pc = "construct"
    /\ Construct(ip_input, "get_ip_info", "except")

\* line 135
MainIpInfo ==
    /\ pc = "get_ip_info"
    /\ Call_get_ip_info
    /\ pc' = "get_broadcast_info"

\* line 136
MainBroadcastInfo ==
    /\ pc = "get_broadcast_info"
    /\ Call_get_broadcast_info
    /\ pc' = "get_address_range"

\* line 137
MainAddressRange ==
    /\ pc = "get_address_range"
    /\ Call_get_address_range
    /\ pc' = "get_network_address"

\* line 138
MainNetworkAddress ==
    /\ pc = "get_network_address"
    /\ Call_get_network_address
    /\ pc' = "exit"

\* lines 140-141: print(e)
MainExcept ==
    /\ pc = "except"
    /\ out' = Append(out, Line(141, <<>>, error))
    /\ pc' = "exit"
    /\ UNCHANGED <<ip_input, net_ip, error, context, calls>>

Next ==
    \/ ReadInput
    \/ MainConstruct
    \/ MainIpInfo
    \/ MainBroadcastInfo
    \/ MainAddressRange
    \/ MainNetworkAddress
    \/ MainExcept

Spec == Init /\ [][Next]_vars

(***************************************************************************)
(* The class used as a library: one object, its methods called in any      *)
(* order, any number of times up to MaxCalls.                              *)
(***************************************************************************)
InitApi ==
    /\ pc = "new"
    /\ ip_input = <<>>
    /\ net_ip = NoObject
    /\ error = ""
    /\ context = ""
    /\ out = <<>>
    /\ calls = <<>>

ApiConstruct ==
    /\ pc = "new"
    /\ \E s \in ApiInputs : Construct(s, "object", "raised")

ApiIpInfo ==
    /\ pc = "object" /\ Len(calls) < MaxCalls
    /\ Call_get_ip_info
    /\ UNCHANGED pc

ApiBroadcastInfo ==
    /\ pc = "object" /\ Len(calls) < MaxCalls
    /\ Call_get_broadcast_info
    /\ UNCHANGED pc

ApiAddressRange ==
    /\ pc = "object" /\ Len(calls) < MaxCalls
    /\ Call_get_address_range
    /\ UNCHANGED pc

ApiNetworkAddress ==
    /\ pc = "object" /\ Len(calls) < MaxCalls
    /\ Call_get_network_address
    /\ UNCHANGED pc

NextApi ==
    \/ ApiConstruct
    \/ ApiIpInfo
    \/ ApiBroadcastInfo
    \/ ApiAddressRange
    \/ ApiNetworkAddress

SpecApi == InitApi /\ [][NextApi]_vars

(***************************************************************************)
(* Properties.                                                             *)
(***************************************************************************)
\* the main program is past line 134
Constructed == pc \notin {"input", "construct"}

Generic == "Neplatna IPv4 adresa."

\* the shape of the typed string
HasSlash == Contains(ip_input, "/")
Parts == PySplit(ip_input, "/")
AddrFields == PySplit(Parts[1], ".")
PrefixInt == PyInt(Parts[2])
FirstInt == PyInt(AddrFields[1])
InClassABC(n) == (1 <= n /\ n <= 126) \/ (128 <= n /\ n <= 191) \/ (192 <= n /\ n <= 223)

\* the lines of out printed by the statement at source line stmt
Printed(stmt) == { i \in 1..Len(out) : out[i].stmt = stmt }

\* bit p (0 the most significant) of the four mask bytes read as one 32-bit
\* big-endian integer
MaskBit(mask, p) == (mask[(p \div 8) + 1] \div (2 ^ (7 - (p % 8)))) % 2

\* the strings A.B.C.D/P with every octet in 0..255 and P in 0..32
ExplicitForm ==
    { AddressChars(a) \o <<"/">> \o IntChars(p) : a \in Addresses, p \in Prefixes }

\* C1: every input A.B.C.D/P with octets in [0,255] and P in [0,32] (first
\* octets 0, 127 and 224-255 included) constructs an object whose address and
\* prefix length are the ones typed, and whose mask has exactly P leading
\* 1-bits followed by 32 - P 0-bits.
C1_ExplicitPrefixMask ==
    (Constructed /\ ip_input \in ExplicitForm) =>
        /\ net_ip # NoObject
        /\ ip_input = AddressChars(net_ip.ip) \o <<"/">> \o IntChars(net_ip.prefixlen)
        /\ \A p \in 0..31 :
               MaskBit(net_ip.mask, p) = IF p < net_ip.prefixlen THEN 1 ELSE 0
        /\ \A i \in 1..4 : net_ip.mask[i] \in 0..255

C1_Witness ==
    /\ Constructed /\ ip_input \in ExplicitForm /\ net_ip # NoObject
    /\ net_ip.ip[1] = 127 /\ net_ip.prefixlen = 17
    /\ net_ip.mask = <<255, 255, 128, 0>>

\* C2: without '/', the prefix length follows from the first octet alone:
\* 1..126 gives 8, 128..191 gives 16, 192..223 gives 24, and any other first
\* octet makes construction fail, the cause being UnsupportedAddressClass;
\* an inferred prefix is one of 8, 16, 24.
C2_DefaultPrefix ==
    (Constructed /\ ~HasSlash) =>
        /\ net_ip # NoObject =>
               /\ ip_input = AddressChars(net_ip.ip)
               /\ net_ip.prefixlen \in {8, 16, 24}
               /\ (net_ip.prefixlen = 8) = (1 <= net_ip.ip[1] /\ net_ip.ip[1] <= 126)
               /\ (net_ip.prefixlen = 16) = (128 <= net_ip.ip[1] /\ net_ip.ip[1] <= 191)
               /\ (net_ip.prefixlen = 24) = (192 <= net_ip.ip[1] /\ net_ip.ip[1] <= 223)
        /\ \A n \in 0..255 :
               (AddrFields[1] = IntChars(n)) =>
                   IF InClassABC(n)
                   THEN context # "UnsupportedAddressClass"
                   ELSE net_ip = NoObject /\ context = "UnsupportedAddressClass"

C2_Witness ==
    /\ Constructed /\ ~HasSlash /\ net_ip # NoObject
    /\ net_ip.ip[1] = 191 /\ net_ip.prefixlen = 16

\* the prefix checks of lines 19-28 pass: an explicit prefix is an integer in
\* 0..32, or there is none and the first octet is of class A, B or C
PrefixPasses ==
    IF HasSlash
    THEN Len(Parts) = 2 /\ PrefixInt.ok /\ 0 <= PrefixInt.val /\ PrefixInt.val <= 32
    ELSE FirstInt.ok /\ InClassABC(FirstInt.val)

FieldsNumeric == \A i \in 1..Len(AddrFields) : PyInt(AddrFields[i]).ok

SomeFieldOutOfRange ==
    \E i \in 1..Len(AddrFields) :
        /\ PyInt(AddrFields[i]).ok
        /\ (PyInt(AddrFields[i]).val < 0 \/ PyInt(AddrFields[i]).val > 255)

BadExplicitPrefix ==
    /\ HasSlash /\ Len(Parts) = 2
    /\ (~PrefixInt.ok \/ PrefixInt.val < 0 \/ PrefixInt.val > 32)

BadDefaultClass == ~HasSlash /\ FirstInt.ok /\ ~InClassABC(FirstInt.val)

\* the error kind of a cause: int() failing on the prefix part is an invalid
\* prefix
Kind(site) == IF site = "int(prefix_part)" THEN "InvalidPrefix" ELSE site

\* C3 as stated: each fault has its error kind, whatever else is wrong with
\* the input.
C3_KindPerFault ==
    Constructed =>
        /\ Len(AddrFields) # 4 => Kind(context) = "InvalidFormat"
        /\ SomeFieldOutOfRange => Kind(context) = "OctetOutOfRange"
        /\ BadExplicitPrefix => Kind(context) = "InvalidPrefix"
        /\ BadDefaultClass => Kind(context) = "UnsupportedAddressClass"

\* C3 (amended): an invalid input is rejected, and the cause is that of the
\* first check failing in the order prefix (explicit prefix not an integer in
\* [0,32]: InvalidPrefix; no prefix and first octet outside classes A/B/C:
\* UnsupportedAddressClass), then field count (InvalidFormat), then octet
\* range (OctetOutOfRange).
C3_FirstFailingCheck ==
    Constructed =>
        /\ BadExplicitPrefix => net_ip = NoObject /\ Kind(context) = "InvalidPrefix"
        /\ BadDefaultClass =>
               net_ip = NoObject /\ Kind(context) = "UnsupportedAddressClass"
        /\ (PrefixPasses /\ Len(AddrFields) # 4) =>
               net_ip = NoObject /\ Kind(context) = "InvalidFormat"
        /\ (PrefixPasses /\ Len(AddrFields) = 4 /\ FieldsNumeric /\ SomeFieldOutOfRange) =>
               net_ip = NoObject /\ Kind(context) = "OctetOutOfRange"
        /\ (PrefixPasses /\ Len(AddrFields) = 4 /\ FieldsNumeric /\ ~SomeFieldOutOfRange) =>
               net_ip # NoObject /\ context = ""

\* two faults at once: three fields and a prefix of 33
C3_Witness ==
    /\ Constructed /\ net_ip = NoObject
    /\ Len(AddrFields) = 3 /\ BadExplicitPrefix /\ context = "InvalidPrefix"

\* C4: when validation fails no attribute has been assigned and no object
\* exists, the error carries the one generic message whatever the cause, and
\* the main program prints that message alone, calls no method and goes on
\* to its end.
C4_AllOrNothing ==
    /\ (Constructed /\ net_ip = NoObject) = (context # "")
    /\ context # "" =>
           /\ net_ip = NoObject
           /\ error = Generic
           /\ calls = <<>>
           /\ pc \in {"except", "exit"}
           /\ pc = "except" => out = <<>> /\ ENABLED MainExcept
           /\ pc = "exit" => out = <<Line(141, <<>>, Generic)>>
    /\ net_ip # NoObject => DOMAIN net_ip = {"ip", "prefixlen", "mask", "network"}

C4_Witness ==
    /\ pc = "exit" /\ context = "OctetOutOfRange"
    /\ net_ip = NoObject /\ Len(out) = 1 /\ out[1].text = Generic

\* C5: the broadcast address printed is network[i] | (~mask[i] & 0xFF) in
\* every byte, so broadcast[i] | mask[i] = 0xFF, and with prefix length 32 it
\* is the network address.
C5_Broadcast ==
    \A k \in Printed(109) :
        LET broadcast == out[k].vals[1]
        IN /\ \A i \in 1..4 :
                  /\ broadcast[i] = BitOr(net_ip.network[i], InvertByte(net_ip.mask[i]))
                  /\ broadcast[i] = net_ip.network[i] + (255 - net_ip.mask[i])
                  /\ BitOr(broadcast[i], net_ip.mask[i]) = 255
           /\ net_ip.prefixlen = 32 => broadcast = net_ip.network
           /\ out[k].text = "Broadcast adresa: " \o Dotted(broadcast)

C5_Witness ==
    /\ Printed(109) # {} /\ net_ip.prefixlen = 32
    /\ \E k \in Printed(109) : out[k].vals[1] = <<172, 16, 254, 255>>

\* C6: the private flag is true exactly for 10.x.x.x, 172.16-31.x.x and
\* 192.168.x.x, whatever the prefix length, and the public flag printed is
\* its negation.
C6_PrivateFlag ==
    /\ \A k \in Printed(100) :
           /\ out[k].vals[1] =
                  (\/ net_ip.ip[1] = 10
                   \/ (net_ip.ip[1] = 172 /\ net_ip.ip[2] \in 16..31)
                   \/ (net_ip.ip[1] = 192 /\ net_ip.ip[2] = 168))
           /\ out[k].text = "Je privatni: " \o (IF out[k].vals[1] THEN "True" ELSE "False")
    /\ \A k \in Printed(101) :
           /\ k - 1 \in Printed(100)
           /\ out[k].vals[1] = ~out[k - 1].vals[1]
           /\ out[k].text = "Je verejna: " \o (IF out[k - 1].vals[1] THEN "False" ELSE "True")

C6_Witness ==
    /\ Printed(101) # {} /\ net_ip.ip[1] = 172 /\ net_ip.ip[2] = 32
    /\ \E k \in Printed(101) : out[k].vals[1] = TRUE

\* the source lines of the report's print statements, in the order of the
\* fields: header, address, type, mask, prefix length, private, public,
\* broadcast, host count, range, network
Report == <<95, 96, 97, 98, 99, 100, 101, 109, 110, 121, 127>>

\* C7: a successful run prints the report's fields in this order, each once:
\* what is printed at any moment is a start of the report, and at the end it
\* is the whole report.
C7_ReportOrder ==
    net_ip # NoObject =>
        /\ Len(out) <= Len(Report)
        /\ \A i \in 1..Len(out) : out[i].stmt = Report[i]
        /\ pc = "exit" => Len(out) = Len(Report)
        /\ \A i \in Printed(97) : out[i].text = "Typ IP: IPv4"

C7_Witness ==
    /\ pc = "exit" /\ net_ip # NoObject /\ Len(out) = 11
    /\ out[11].text = "Sitova adresa: 192.168.0.0"

\* C8: whatever methods are called on an object, in whatever order and
\* however often, ip, prefixlen, mask and network stay what the constructor
\* made them, and a repeated call prints what the earlier call printed.
C8_Immutable ==
    pc = "object" =>
        /\ net_ip = NetIPv4(ip_input).self
        /\ \A i, j \in 1..Len(out) : out[i].stmt = out[j].stmt => out[i] = out[j]

C8_Witness ==
    /\ pc = "object"
    /\ calls = <<"get_address_range", "get_broadcast_info", "get_address_range">>
    /\ out[1] = out[4]

\* 2^(32 - p) - 2 as str() writes it; the two values beyond 2^31 - 1 are
\* written out
HostsText(p) ==
    IF p = 0 THEN "4294967294"
    ELSE IF p = 1 THEN "2147483646"
    ELSE ToString(2 ^ (32 - p) - 2)

\* C9: the host count printed is 2^(32 - prefixlen) - 2, not clamped: -1 for
\* prefix length 32, 0 for 31, 254 for 24, 2^32 - 2 for 0.
C9_MaxHosts ==
    \A k \in Printed(110) :
        /\ out[k].text = "Maximalni pocet hostu: " \o HostsText(net_ip.prefixlen)
        /\ net_ip.prefixlen = 32 => out[k].text = "Maximalni pocet hostu: -1"
        /\ net_ip.prefixlen = 31 => out[k].text = "Maximalni pocet hostu: 0"
        /\ net_ip.prefixlen = 24 => out[k].text = "Maximalni pocet hostu: 254"
        /\ net_ip.prefixlen = 0 => out[k].text = "Maximalni pocet hostu: 4294967294"

C9_Witness ==
    /\ Printed(110) # {} /\ net_ip.prefixlen = 32
    /\ \E k \in Printed(110) : out[k].vals[1] = [neg |-> TRUE, mag |-> <<1>>]

\* a <= b, both read as 32-bit big-endian integers
RECURSIVE AddrLeq(_, _)
AddrLeq(a, b) ==
    IF a = <<>> THEN TRUE
    ELSE IF a[1] # b[1] THEN a[1] < b[1]
    ELSE AddrLeq(Tail(a), Tail(b))

\* C10: every dotted address printed has four bytes in 0..255, and the first
\* usable address is not greater than the last, for every prefix length.
C10_PrintedAddresses ==
    /\ \A k \in Printed(96) \cup Printed(98) \cup Printed(109) \cup Printed(121)
                   \cup Printed(127) :
           \A v \in 1..Len(out[k].vals) :
               /\ Len(out[k].vals[v]) = 4
               /\ \A i \in 1..4 : out[k].vals[v][i] \in 0..255
    /\ \A k \in Printed(121) : AddrLeq(out[k].vals[1], out[k].vals[2])

====
